---- MODULE Spec2Model ----
(***************************************************************************)
(* A model of sprocketnes/ppu.rs: the PPU register file (Regs), the PPU    *)
(* memory (PpuMem, the Mem implementation for VRAM) and the register       *)
(* dispatcher (Ppu::storeb with its helpers).                              *)
(*                                                                         *)
(* A `fail` of the source ends the task: the model records the message in  *)
(* `failure` and no operation runs afterwards.                             *)
(* u8 and u16 arithmetic wraps (modulo 2^8 and 2^16).                      *)
(***************************************************************************)
EXTENDS Integers, Sequences, FiniteSets, TLC

\* ---------------------------------------------------------------- bounds

\* Register writes in one run of SpecRegs.
MaxRegWrites == 4

\* PpuMem accesses in one run of SpecMem.
MaxMemOps == 3

\* Operations (register writes and PpuMem accesses, interleaved) in one run of Spec.
MaxSteps == 2

\* Calls of a register accessor or mutator in one run of SpecStatus and SpecCtrl.
MaxCalls == 2

\* ------------------------------------------------------- program constants

U8 == 256                \* u8 values are 0 .. U8-1
U16 == 65536             \* u16 values are 0 .. U16-1
ChrSize == 8192          \* 0x2000: pattern tables (tilesets 0 and 1)
NametablesSize == 4096   \* 0x1000: nametables: [u8 * 0x1000]
PaletteSize == 32        \* 0x20:   palette: [u8 * 0x20]
PaletteBase == 16128     \* 0x3f00
VramEnd == 16384         \* 0x4000
RegBase == 8192          \* 0x2000: first CPU address of the PPU registers
RegEnd == 16384          \* 0x4000: one past the last mirrored register

\* The messages of the source's `fail` statements.
InvalidVramRead == "invalid VRAM read"
OamUnimplemented == "OAM write unimplemented"
CantHappen == "can't happen"
NoFailure == "none"

\* --------------------------------------------------------- bit operations

\* x & y on naturals, bit by bit.
RECURSIVE BitAnd(_, _)
BitAnd(x, y) ==
    IF x = 0 \/ y = 0 THEN 0
    ELSE (IF x % 2 = 1 /\ y % 2 = 1 THEN 1 ELSE 0) + 2 * BitAnd(x \div 2, y \div 2)

\* x | y on naturals, bit by bit.
RECURSIVE BitOr(_, _)
BitOr(x, y) ==
    IF x = 0 THEN y
    ELSE IF y = 0 THEN x
    ELSE (IF x % 2 = 1 \/ y % 2 = 1 THEN 1 ELSE 0) + 2 * BitOr(x \div 2, y \div 2)

\* (x << n) on a u16
Shl16(x, n) == (x * (2 ^ n)) % U16

\* ------------------------------------------------------------------ inputs

\* Bytes written: 0x3b (bit 2 clear), 0x3f and 0xff (bit 2 set). As the high byte
\* of the cursor they select the nametable area, the palette area and the
\* addresses past 0x4000; 0xffff + 32 wraps.
Bytes == {59, 63, 255}

\* One CPU address for each register, on different mirrors:
\* 0x2000 0x2009 0x3ffa 0x2003 0x200c 0x3ffd 0x2006 0x3fff.
CpuAddrs == {8192, 8201, 16378, 8195, 8204, 16381, 8198, 16383}

\* VRAM addresses of PpuMem accesses:
\* 0x1fff | 0x2eff 0x3000 0x3eff | 0x3f00 0x3f1f 0x3fff | 0x4000.
VramAddrs == {8191, 12031, 12288, 16127, 16128, 16159, 16383, 16384}

\* 16-bit values for storew: 0xabcd.
Words == {43981}

\* rom.chr, the cartridge's pattern bytes. PpuMem holds the Rom by shared
\* reference (rom: &Rom), through which nothing can be written.
RomChr == [a \in 0 .. ChrSize - 1 |-> (a * 7 + 85) % U8]

\* ------------------------------------------------------------------- state

VARIABLES
    regs,           \* Regs: ctrl, mask, status, oam_addr, scroll (x, y, next), addr
    vram,           \* PpuMem: nametables, palette
    failure,        \* NoFailure, or the message of the `fail` that ended the task
    last,           \* history: the last operation (op, addr, val, ret)
    scroll_writes,  \* history: number of writes to the scroll register so far
    addr_hi,        \* history: the byte of the latest address-register write, or
                    \*   NoByte at the start and after a data-register write
    data_run,       \* history: the data-register writes since the last write to the
                    \*   address register or to ctrl: their number n and the
                    \*   cursor before the first of them (start)
    steps           \* operations performed so far

vars == <<regs, vram, failure, last, scroll_writes, addr_hi, data_run, steps>>

\* Not a byte: no address byte is pending.
NoByte == U8

\* ----------------------------------------------------------------- PpuCtrl

\* Mutant: the increment is 1 when bit 2 is clear.
vram_addr_increment_one_or_32(ctrl) == IF BitAnd(ctrl, 4) = 0 THEN 1 ELSE 32

\* Mutant: the test looks at bits 2 and 3 (mask 0x0c).
vram_addr_increment_two_bits(ctrl) == IF BitAnd(ctrl, 12) = 0 THEN 0 ELSE 32

vram_addr_increment(ctrl) == IF BitAnd(ctrl, 4) = 0 THEN 0 ELSE 32

\* --------------------------------------------------------------- PpuStatus

\* !x on a u8
Not8(x) == (U8 - 1) - x

\* Mutant: the clearing arm masks with 0x20 instead of !0x20.
set_sprite_overflow_keeps_only_bit(status, val) ==
    IF val THEN BitOr(status, 32) ELSE BitAnd(status, 32)

set_sprite_overflow(status, val) ==
    IF val THEN BitOr(status, 32) ELSE BitAnd(status, Not8(32))

set_sprite_zero_hit(status, val) ==
    IF val THEN BitOr(status, 64) ELSE BitAnd(status, Not8(64))

set_in_vblank(status, val) ==
    IF val THEN BitOr(status, 128) ELSE BitAnd(status, Not8(128))

\* ------------------------------------------------------------------ PpuMem

\* The outcome of a load: the failure message (NoFailure when it returned) and the value.
Ret(v) == [failure |-> NoFailure, val |-> v]
Fail(msg) == [failure |-> msg, val |-> 0]

\* Mutant: the palette test lets 0x4000 through (addr <= 0x4000).
PpuMem_loadb_off_by_one(mem, addr) ==
    IF addr < ChrSize THEN Ret(RomChr[addr])
    ELSE IF addr < PaletteBase THEN Ret(mem.nametables[BitAnd(addr, 4095)])
    ELSE IF addr <= VramEnd THEN Ret(mem.palette[BitAnd(addr, 31)])
    ELSE Fail(InvalidVramRead)

PpuMem_loadb(mem, addr) ==
    IF addr < ChrSize THEN Ret(RomChr[addr])
    ELSE IF addr < PaletteBase THEN Ret(mem.nametables[BitAnd(addr, 4095)])
    ELSE IF addr < VramEnd THEN Ret(mem.palette[BitAnd(addr, 31)])
    ELSE Fail(InvalidVramRead)

\* Mutant: the early return for CHR-ROM is missing, the store falls into the
\* nametable branch.
PpuMem_storeb_no_chr_return(mem, addr, val) ==
    IF addr < PaletteBase
         THEN [mem EXCEPT !.nametables[BitAnd(addr, 4095)] = val]
    ELSE IF addr < VramEnd
         THEN [mem EXCEPT !.palette[BitAnd(addr, 31)] = val]
    ELSE mem

\* Mutant: the store masks the nametable address with 0x03ff (one nametable).
PpuMem_storeb_one_nametable(mem, addr, val) ==
    IF addr < ChrSize THEN mem
    ELSE IF addr < PaletteBase
         THEN [mem EXCEPT !.nametables[BitAnd(addr, 1023)] = val]
    ELSE IF addr < VramEnd
         THEN [mem EXCEPT !.palette[BitAnd(addr, 31)] = val]
    ELSE mem

\* Mutant: the palette address is masked with 0x0f (16 slots).
PpuMem_storeb_half_palette(mem, addr, val) ==
    IF addr < ChrSize THEN mem
    ELSE IF addr < PaletteBase
         THEN [mem EXCEPT !.nametables[BitAnd(addr, 4095)] = val]
    ELSE IF addr < VramEnd
         THEN [mem EXCEPT !.palette[BitAnd(addr, 15)] = val]
    ELSE mem

\* Mutant: palette bytes are kept in the nametable buffer, at addr & 0x0fff.
PpuMem_storeb_shared_buffer(mem, addr, val) ==
    IF addr < ChrSize THEN mem
    ELSE IF addr < VramEnd
         THEN [mem EXCEPT !.nametables[BitAnd(addr, 4095)] = val]
    ELSE mem

\* Mutant: the last arm is a plain else, every address from 0x3f00 on is palette.
PpuMem_storeb_open_palette(mem, addr, val) ==
    IF addr < ChrSize THEN mem
    ELSE IF addr < PaletteBase
         THEN [mem EXCEPT !.nametables[BitAnd(addr, 4095)] = val]
    ELSE [mem EXCEPT !.palette[BitAnd(addr, 31)] = val]

PpuMem_storeb(mem, addr, val) ==
    IF addr < ChrSize THEN mem
    ELSE IF addr < PaletteBase
         THEN [mem EXCEPT !.nametables[BitAnd(addr, 4095)] = val]
    ELSE IF addr < VramEnd
         THEN [mem EXCEPT !.palette[BitAnd(addr, 31)] = val]
    ELSE mem

\* Mutant: the bytes are combined high byte first.
PpuMem_loadw_big_endian(mem, addr) ==
    LET lo == PpuMem_loadb(mem, addr)
        hi == PpuMem_loadb(mem, (addr + 1) % U16)
    IN  IF lo.failure # NoFailure THEN lo
        ELSE IF hi.failure # NoFailure THEN hi
        ELSE Ret(BitOr(hi.val, Shl16(lo.val, 8)))

PpuMem_loadw(mem, addr) ==
    LET lo == PpuMem_loadb(mem, addr)
        hi == PpuMem_loadb(mem, (addr + 1) % U16)
    IN  IF lo.failure # NoFailure THEN lo
        ELSE IF hi.failure # NoFailure THEN hi
        ELSE Ret(BitOr(lo.val, Shl16(hi.val, 8)))

PpuMem_storew(mem, addr, val) == mem

\* --------------------------------------------------------------------- Ppu

\* The Ppu as a value: its registers, its VRAM, and whether the call failed.
PpuState(r, m, f) == [regs |-> r, vram |-> m, failure |-> f]

\* Mutant: the YDir arm does not flip the toggle back.
update_ppuscroll_no_flip_back(p, val) ==
    IF p.regs.scroll.next = "XDir"
    THEN [p EXCEPT !.regs.scroll.x = val, !.regs.scroll.next = "YDir"]
    ELSE [p EXCEPT !.regs.scroll.y = val]

update_ppuscroll(p, val) ==
    IF p.regs.scroll.next = "XDir"
    THEN [p EXCEPT !.regs.scroll.x = val, !.regs.scroll.next = "YDir"]
    ELSE [p EXCEPT !.regs.scroll.y = val, !.regs.scroll.next = "XDir"]

\* Mutant: the write replaces the low byte and keeps the high byte.
update_ppuaddr_low_byte_only(p, val) ==
    [p EXCEPT !.regs.addr = BitOr(BitAnd(p.regs.addr, 65280), val)]

update_ppuaddr(p, val) ==
    [p EXCEPT !.regs.addr = BitOr(Shl16(p.regs.addr, 8), val)]

\* Mutant: the cursor is incremented before the store.
write_ppudata_increment_first(p, val) ==
    LET moved == [p EXCEPT !.regs.addr =
                    (p.regs.addr + vram_addr_increment(p.regs.ctrl)) % U16]
    IN  [moved EXCEPT !.vram = PpuMem_storeb(moved.vram, moved.regs.addr, val)]

\* Mutant: the data write rejects a cursor past the VRAM, as a load there does.
write_ppudata_range_checked(p, val) ==
    IF p.regs.addr >= VramEnd
    THEN [p EXCEPT !.failure = InvalidVramRead]
    ELSE LET stored == [p EXCEPT !.vram = PpuMem_storeb(p.vram, p.regs.addr, val)]
         IN  [stored EXCEPT !.regs.addr =
                 (stored.regs.addr + vram_addr_increment(stored.regs.ctrl)) % U16]

write_ppudata(p, val) ==
    LET stored == [p EXCEPT !.vram = PpuMem_storeb(p.vram, p.regs.addr, val)]
    IN  [stored EXCEPT !.regs.addr =
            (stored.regs.addr + vram_addr_increment(stored.regs.ctrl)) % U16]

\* Mutant: the register is selected by address - 0x2000, without mirroring.
Ppu_storeb_no_mirroring(p, addr, val) ==
    LET reg == addr - RegBase
    IN  CASE reg = 0 -> [p EXCEPT !.regs.ctrl = val]
          [] reg = 1 -> [p EXCEPT !.regs.mask = val]
          [] reg = 2 -> p
          [] reg = 3 -> [p EXCEPT !.regs.oam_addr = val]
          [] reg = 4 -> [p EXCEPT !.failure = OamUnimplemented]
          [] reg = 5 -> update_ppuscroll(p, val)
          [] reg = 6 -> update_ppuaddr(p, val)
          [] reg = 7 -> write_ppudata(p, val)
          [] OTHER -> [p EXCEPT !.failure = CantHappen]

\* Mutant: the OAM data write is dropped like the PPUSTATUS write.
Ppu_storeb_oam_write_dropped(p, addr, val) ==
    LET reg == BitAnd(addr, 7)
    IN  CASE reg = 0 -> [p EXCEPT !.regs.ctrl = val]
          [] reg = 1 -> [p EXCEPT !.regs.mask = val]
          [] reg = 2 -> p
          [] reg = 3 -> [p EXCEPT !.regs.oam_addr = val]
          [] reg = 4 -> p
          [] reg = 5 -> update_ppuscroll(p, val)
          [] reg = 6 -> update_ppuaddr(p, val)
          [] reg = 7 -> write_ppudata(p, val)
          [] OTHER -> [p EXCEPT !.failure = CantHappen]

\* Mutant: the PPUSTATUS write sets the status byte.
Ppu_storeb_status_written(p, addr, val) ==
    LET reg == BitAnd(addr, 7)
    IN  CASE reg = 0 -> [p EXCEPT !.regs.ctrl = val]
          [] reg = 1 -> [p EXCEPT !.regs.mask = val]
          [] reg = 2 -> [p EXCEPT !.regs.status = val]
          [] reg = 3 -> [p EXCEPT !.regs.oam_addr = val]
          [] reg = 4 -> [p EXCEPT !.failure = OamUnimplemented]
          [] reg = 5 -> update_ppuscroll(p, val)
          [] reg = 6 -> update_ppuaddr(p, val)
          [] reg = 7 -> write_ppudata(p, val)
          [] OTHER -> [p EXCEPT !.failure = CantHappen]

\* Mutant: the PPUMASK write lands in ctrl.
Ppu_storeb_mask_into_ctrl(p, addr, val) ==
    LET reg == BitAnd(addr, 7)
    IN  CASE reg = 0 -> [p EXCEPT !.regs.ctrl = val]
          [] reg = 1 -> [p EXCEPT !.regs.ctrl = val]
          [] reg = 2 -> p
          [] reg = 3 -> [p EXCEPT !.regs.oam_addr = val]
          [] reg = 4 -> [p EXCEPT !.failure = OamUnimplemented]
          [] reg = 5 -> update_ppuscroll(p, val)
          [] reg = 6 -> update_ppuaddr(p, val)
          [] reg = 7 -> write_ppudata(p, val)
          [] OTHER -> [p EXCEPT !.failure = CantHappen]

\* The addresses written satisfy the debug_assert (RegBase <= addr < RegEnd).
Ppu_storeb(p, addr, val) ==
    LET reg == BitAnd(addr, 7)
    IN  CASE reg = 0 -> [p EXCEPT !.regs.ctrl = val]
          [] reg = 1 -> [p EXCEPT !.regs.mask = val]
          [] reg = 2 -> p
          [] reg = 3 -> [p EXCEPT !.regs.oam_addr = val]
          [] reg = 4 -> [p EXCEPT !.failure = OamUnimplemented]
          [] reg = 5 -> update_ppuscroll(p, val)
          [] reg = 6 -> update_ppuaddr(p, val)
          [] reg = 7 -> write_ppudata(p, val)
          [] OTHER -> [p EXCEPT !.failure = CantHappen]

\* ---------------------------------------------------------------- behaviour

Op(name, addr, val, ret) == [op |-> name, addr |-> addr, val |-> val, ret |-> ret]

Init ==
    /\ regs = [ctrl |-> 0, mask |-> 0, status |-> 0, oam_addr |-> 0,
               scroll |-> [x |-> 0, y |-> 0, next |-> "XDir"], addr |-> 0]
    /\ vram = [nametables |-> [i \in 0 .. NametablesSize - 1 |-> 0],
               palette |-> [i \in 0 .. PaletteSize - 1 |-> 0]]
    /\ failure = NoFailure
    /\ last = Op("none", 0, 0, 0)
    /\ scroll_writes = 0
    /\ addr_hi = NoByte
    /\ data_run = [n |-> 0, start |-> 0]
    /\ steps = 0

\* The task is alive and the run may go on.
Running(limit) == failure = NoFailure /\ steps < limit

\* The CPU writes val to the PPU register at addr (Ppu::storeb).
CpuStoreb(limit) ==
    \E addr \in CpuAddrs, val \in Bytes :
        /\ Running(limit)
        /\ LET p == Ppu_storeb(PpuState(regs, vram, NoFailure), addr, val)
           IN  /\ regs' = p.regs
               /\ vram' = p.vram
               /\ failure' = p.failure
        /\ last' = Op("ppu_storeb", addr, val, 0)
        /\ scroll_writes' = IF addr % 8 = 5 THEN scroll_writes + 1 ELSE scroll_writes
        /\ addr_hi' = IF addr % 8 = 6 THEN val
                      ELSE IF addr % 8 = 7 THEN NoByte
                      ELSE addr_hi
        /\ data_run' = IF addr % 8 = 0 \/ addr % 8 = 6 THEN [n |-> 0, start |-> 0]
                       ELSE IF addr % 8 # 7 THEN data_run
                       ELSE IF data_run.n = 0 THEN [n |-> 1, start |-> regs.addr]
                       ELSE [data_run EXCEPT !.n = data_run.n + 1]
        /\ steps' = steps + 1

\* PpuMem::loadb
VramLoadb(limit) ==
    \E addr \in VramAddrs :
        /\ Running(limit)
        /\ LET r == PpuMem_loadb(vram, addr)
           IN  /\ failure' = r.failure
               /\ last' = Op("loadb", addr, 0, r.val)
        /\ steps' = steps + 1
        /\ UNCHANGED <<regs, vram, scroll_writes, addr_hi, data_run>>

\* PpuMem::storeb
VramStoreb(limit) ==
    \E addr \in VramAddrs, val \in Bytes :
        /\ Running(limit)
        /\ vram' = PpuMem_storeb(vram, addr, val)
        /\ last' = Op("storeb", addr, val, 0)
        /\ steps' = steps + 1
        /\ UNCHANGED <<regs, failure, scroll_writes, addr_hi, data_run>>

\* PpuMem::loadw
VramLoadw(limit) ==
    \E addr \in VramAddrs :
        /\ Running(limit)
        /\ LET r == PpuMem_loadw(vram, addr)
           IN  /\ failure' = r.failure
               /\ last' = Op("loadw", addr, 0, r.val)
        /\ steps' = steps + 1
        /\ UNCHANGED <<regs, vram, scroll_writes, addr_hi, data_run>>

\* PpuMem::storew
VramStorew(limit) ==
    \E addr \in VramAddrs, val \in Words :
        /\ Running(limit)
        /\ vram' = PpuMem_storew(vram, addr, val)
        /\ last' = Op("storew", addr, val, 0)
        /\ steps' = steps + 1
        /\ UNCHANGED <<regs, failure, scroll_writes, addr_hi, data_run>>

\* Register writes and PpuMem accesses, interleaved.
Next ==
    \/ CpuStoreb(MaxSteps)
    \/ VramLoadb(MaxSteps)
    \/ VramStoreb(MaxSteps)
    \/ VramLoadw(MaxSteps)
    \/ VramStorew(MaxSteps)

Spec == Init /\ [][Next]_vars

\* Register writes only: the CPU drives the PPU through Ppu::storeb.
NextRegs == CpuStoreb(MaxRegWrites)

SpecRegs == Init /\ [][NextRegs]_vars

\* PpuMem accesses only.
NextMem ==
    \/ VramLoadb(MaxMemOps)
    \/ VramStoreb(MaxMemOps)
    \/ VramLoadw(MaxMemOps)
    \/ VramStorew(MaxMemOps)

SpecMem == Init /\ [][NextMem]_vars

\* The registers and the memory as Init has them, but for ctrl and status.
PowerOn(ctrl, status) ==
    /\ regs = [ctrl |-> ctrl, mask |-> 0, status |-> status, oam_addr |-> 0,
               scroll |-> [x |-> 0, y |-> 0, next |-> "XDir"], addr |-> 0]
    /\ vram = [nametables |-> [i \in 0 .. NametablesSize - 1 |-> 0],
               palette |-> [i \in 0 .. PaletteSize - 1 |-> 0]]
    /\ failure = NoFailure
    /\ last = Op("none", 0, 0, 0)
    /\ scroll_writes = 0
    /\ addr_hi = NoByte
    /\ data_run = [n |-> 0, start |-> 0]
    /\ steps = 0

\* A call of a PpuStatus mutator on regs.status; last.val is 1 for true, 0 for false.
StatusCall(limit, name, status, val) ==
    /\ Running(limit)
    /\ regs' = [regs EXCEPT !.status = status]
    /\ last' = Op(name, 0, IF val THEN 1 ELSE 0, 0)
    /\ steps' = steps + 1
    /\ UNCHANGED <<vram, failure, scroll_writes, addr_hi, data_run>>

\* PpuStatus::set_sprite_overflow
SetSpriteOverflow(limit) ==
    \E val \in BOOLEAN :
        StatusCall(limit, "set_sprite_overflow", set_sprite_overflow(regs.status, val), val)

\* PpuStatus::set_sprite_zero_hit
SetSpriteZeroHit(limit) ==
    \E val \in BOOLEAN :
        StatusCall(limit, "set_sprite_zero_hit", set_sprite_zero_hit(regs.status, val), val)

\* PpuStatus::set_in_vblank
SetInVblank(limit) ==
    \E val \in BOOLEAN :
        StatusCall(limit, "set_in_vblank", set_in_vblank(regs.status, val), val)

\* The status mutators, from every status byte.
InitStatus == \E status \in 0 .. U8 - 1 : PowerOn(0, status)

NextStatus ==
    \/ SetSpriteOverflow(MaxCalls)
    \/ SetSpriteZeroHit(MaxCalls)
    \/ SetInVblank(MaxCalls)

SpecStatus == InitStatus /\ [][NextStatus]_vars

\* PpuCtrl::vram_addr_increment, called on regs.ctrl.
VramAddrIncrement(limit) ==
    /\ Running(limit)
    /\ last' = Op("vram_addr_increment", 0, regs.ctrl, vram_addr_increment(regs.ctrl))
    /\ steps' = steps + 1
    /\ UNCHANGED <<regs, vram, failure, scroll_writes, addr_hi, data_run>>

\* The ctrl accessor, from every ctrl byte.
InitCtrl == \E ctrl \in 0 .. U8 - 1 : PowerOn(ctrl, 0)

NextCtrl == VramAddrIncrement(MaxCalls)

SpecCtrl == InitCtrl /\ [][NextCtrl]_vars

TypeOK ==
    /\ regs.ctrl \in 0 .. U8 - 1
    /\ regs.addr \in 0 .. U16 - 1
    /\ regs.scroll.next \in {"XDir", "YDir"}
    /\ \A i \in DOMAIN vram.palette : vram.palette[i] \in 0 .. U8 - 1
    /\ failure \in {NoFailure, InvalidVramRead, OamUnimplemented}

\* ------------------------------------------------------------------ claims

\* What the last operation was.
IsRegWrite(op, reg) == op.op = "ppu_storeb" /\ op.addr % 8 = reg
InNametables(a) == ChrSize <= a /\ a < PaletteBase
InPalette(a) == PaletteBase <= a /\ a < VramEnd

\* C1: a write of v to the data register (address & 7 = 7) stores v in VRAM at the
\* cursor held before the write and then sets the cursor to the old cursor plus
\* 32 (bit 2 of ctrl set) or plus 0 (bit 2 clear), in u16 arithmetic; the store
\* never sees the incremented cursor.
C1_DataWriteStoresThenIncrements ==
    [][IsRegWrite(last', 7) =>
          /\ failure' = NoFailure
          /\ vram' = PpuMem_storeb(vram, regs.addr, last'.val)
          /\ regs'.addr =
                (regs.addr + (IF (regs.ctrl \div 4) % 2 = 1 THEN 32 ELSE 0)) % U16
          /\ regs'.ctrl = regs.ctrl]_vars

\* A data write with bit 2 of ctrl set has stored its byte in the nametable slot of
\* the old cursor, and the slot of the new cursor holds something else.
C1_Witness ==
    /\ IsRegWrite(last, 7)
    /\ (regs.ctrl \div 4) % 2 = 1
    /\ InNametables(regs.addr - 32)
    /\ InNametables(regs.addr)
    /\ vram.nametables[(regs.addr - 32) % NametablesSize] = last.val
    /\ vram.nametables[regs.addr % NametablesSize] # last.val

\* C2: each write of a byte to the address register (address & 7 = 6) sets the
\* cursor to ((cursor << 8) | byte) truncated to 16 bits; so two address writes h
\* then l with no data write between them leave the cursor at h * 256 + l whatever
\* the cursor held before, and after three or more only the last two bytes remain.
C2_AddressLatch ==
    [][IsRegWrite(last', 6) =>
          /\ failure' = NoFailure
          /\ regs'.addr = ((regs.addr * 256) % U16) + last'.val
          /\ addr_hi # NoByte => regs'.addr = addr_hi * 256 + last'.val]_vars

\* A third address write in a row: the first byte has left the cursor.
C2_Witness ==
    /\ IsRegWrite(last, 6)
    /\ steps >= 3
    /\ regs.addr = 15359
    /\ addr_hi = 255

\* C3: starting from XDir, the k-th write to the scroll register (address & 7 = 5)
\* stores its byte into x when k is odd and into y when k is even and flips the
\* toggle, whatever the byte; no other register write changes the toggle.
C3_ScrollLatch ==
    [][/\ (scroll_writes' % 2 = 0) = (regs'.scroll.next = "XDir")
       /\ IsRegWrite(last', 5) /\ scroll_writes' % 2 = 1 =>
             /\ scroll_writes' = scroll_writes + 1
             /\ regs'.scroll = [x |-> last'.val, y |-> regs.scroll.y, next |-> "YDir"]
       /\ IsRegWrite(last', 5) /\ scroll_writes' % 2 = 0 =>
             /\ scroll_writes' = scroll_writes + 1
             /\ regs'.scroll = [x |-> regs.scroll.x, y |-> last'.val, next |-> "XDir"]
       /\ ~IsRegWrite(last', 5) =>
             /\ scroll_writes' = scroll_writes
             /\ regs'.scroll = regs.scroll]_vars

\* The third scroll write, after a write to another register, has replaced x.
C3_Witness ==
    /\ IsRegWrite(last, 5)
    /\ scroll_writes = 3
    /\ steps = 4
    /\ regs.scroll.x = last.val
    /\ regs.scroll.y # last.val
    /\ regs.scroll.next = "YDir"

\* Mirrors of a register address: 0x2000 + 8 * k + (a & 7).
MirrorIndex == {0, 1, 511, 1023}
MirrorsOf(a) == {RegBase + (8 * k) + (a % 8) : k \in MirrorIndex}

\* C4: writing v to CPU addresses a and b of 0x2000..0x3fff with a & 7 = b & 7, from
\* the same state, has the same outcome (registers, VRAM, failure): the register
\* reached depends only on address & 7.
C4_RegisterMirroring ==
    [][last'.op = "ppu_storeb" =>
          \A b \in MirrorsOf(last'.addr) :
              Ppu_storeb(PpuState(regs, vram, NoFailure), b, last'.val)
                  = PpuState(regs', vram', failure')]_vars

\* A write through the last mirror of the data register (0x3fff) has stored its
\* byte in the nametables.
C4_Witness ==
    /\ IsRegWrite(last, 7)
    /\ last.addr >= RegBase + 8
    /\ InNametables(regs.addr)
    /\ vram.nametables[regs.addr % NametablesSize] = last.val

\* C5 (as claimed): a single-byte VRAM store at an address >= 0x4000 fails with
\* InvalidAddress and changes no nametable or palette byte.
C5_StoreOutOfRangeFails ==
    [][last'.op = "storeb" /\ last'.addr >= VramEnd =>
          failure' # NoFailure /\ vram' = vram]_vars

\* C6: a single-byte VRAM load succeeds for every address in 0x0000..0x3fff and
\* returns the pattern byte, the nametable byte at address & 0x0fff or the palette
\* byte at address & 0x1f according to the range; it fails with InvalidAddress for
\* every address >= 0x4000.
C6_LoadRanges ==
    last.op = "loadb" =>
        IF last.addr < ChrSize
            THEN failure = NoFailure /\ last.ret = RomChr[last.addr]
        ELSE IF last.addr < PaletteBase
            THEN failure = NoFailure
                 /\ last.ret = vram.nametables[last.addr % NametablesSize]
        ELSE IF last.addr < VramEnd
            THEN failure = NoFailure
                 /\ last.ret = vram.palette[last.addr % PaletteSize]
        ELSE failure = InvalidVramRead

\* A load at 0x4000 has failed.
C6_Witness ==
    /\ last.op = "loadb"
    /\ last.addr = VramEnd
    /\ failure = InvalidVramRead

\* C7 (as claimed): a 16-bit VRAM store fails with Unimplemented, never returns
\* normally and leaves every nametable and palette byte unchanged.
C7_StorewFails ==
    [][last'.op = "storew" => failure' # NoFailure /\ vram' = vram]_vars

\* C8: a write to the OAM data register (address & 7 = 4) fails with Unimplemented
\* and leaves every register field and all VRAM contents as they were.
C8_OamDataWriteFails ==
    [][IsRegWrite(last', 4) =>
          /\ failure' = OamUnimplemented
          /\ regs' = regs
          /\ vram' = vram]_vars

\* An OAM data write has failed after the registers and the VRAM were written.
C8_Witness ==
    /\ IsRegWrite(last, 4)
    /\ failure = OamUnimplemented
    /\ regs.addr # 0
    /\ \E i \in DOMAIN vram.nametables : vram.nametables[i] # 0

\* Pattern addresses looked at in every state: 0x0000 0x0001 0x0fff 0x1000 0x1fff.
PatternProbes == {0, 1, 4095, 4096, 8191}

\* C9: pattern data is immutable. After any sequence of VRAM stores and register
\* writes a load in 0x0000..0x1fff returns the cartridge byte; a store there, by
\* PpuMem::storeb or through the data register with the cursor below 0x2000,
\* returns normally and changes no nametable or palette byte.
C9_PatternImmutable ==
    [][/\ \A a \in PatternProbes : PpuMem_loadb(vram', a) = Ret(RomChr[a])
       /\ last'.op = "loadb" /\ last'.addr < ChrSize =>
             failure' = NoFailure /\ last'.ret = RomChr[last'.addr]
       /\ last'.op = "storeb" /\ last'.addr < ChrSize =>
             failure' = NoFailure /\ vram' = vram
       /\ IsRegWrite(last', 7) /\ regs.addr < ChrSize =>
             failure' = NoFailure /\ vram' = vram]_vars

\* A data-register write with the cursor in the pattern range, of a byte that is
\* not the cartridge's, has returned; the nametables are untouched.
C9_Witness ==
    /\ IsRegWrite(last, 7)
    /\ regs.addr < ChrSize
    /\ regs.addr > 0
    /\ last.val # RomChr[regs.addr]
    /\ failure = NoFailure
    /\ \A i \in DOMAIN vram.nametables : vram.nametables[i] = 0

\* Nametable addresses: 0x2000 0x2eff 0x3000 0x3400 0x3eff.
NametableProbes == {8192, 12031, 12288, 13312, 16127}

\* C10: for nametable addresses a, b of 0x2000..0x3eff with a & 0x0fff = b & 0x0fff
\* and any byte v, store(a, v) followed by load(b) returns v.
C10_NametableRoundTrip ==
    /\ [](\A a \in NametableProbes, b \in NametableProbes, v \in Bytes \cup {0} :
            a % NametablesSize = b % NametablesSize =>
                PpuMem_loadb(PpuMem_storeb(vram, a, v), b) = Ret(v))
    /\ [][/\ last.op = "storeb" /\ InNametables(last.addr)
          /\ last'.op = "loadb" /\ InNametables(last'.addr)
          /\ last.addr % NametablesSize = last'.addr % NametablesSize
          => failure' = NoFailure /\ last'.ret = last.val]_vars

\* A load at 0x3eff returns the byte that only a store at its mirror 0x2eff or at
\* 0x3eff itself can have written.
C10_Witness ==
    /\ last.op = "loadb"
    /\ last.addr = 16127
    /\ last.ret = 255
    /\ failure = NoFailure

\* Palette addresses: 0x3f00 0x3f10 0x3f1f 0x3f20 0x3fff.
PaletteProbes == {16128, 16144, 16159, 16160, 16383}

\* C11: for palette addresses a, b of 0x3f00..0x3fff and any byte v, store(a, v)
\* followed by load(b) returns v when a & 0x1f = b & 0x1f, and leaves what load(b)
\* returned when the slots differ (0x3f10 is not 0x3f00).
C11_PaletteRoundTrip ==
    /\ [](\A a \in PaletteProbes, b \in PaletteProbes, v \in Bytes \cup {0} :
            PpuMem_loadb(PpuMem_storeb(vram, a, v), b) =
                IF a % PaletteSize = b % PaletteSize
                THEN Ret(v)
                ELSE PpuMem_loadb(vram, b))
    /\ [][/\ last.op = "storeb" /\ InPalette(last.addr)
          /\ last'.op = "loadb" /\ InPalette(last'.addr)
          /\ last.addr % PaletteSize = last'.addr % PaletteSize
          => failure' = NoFailure /\ last'.ret = last.val]_vars

\* A load at 0x3fff returns the byte stored at 0x3f1f or 0x3fff, and slot 0 still
\* holds another byte.
C11_Witness ==
    /\ last.op = "loadb"
    /\ last.addr = 16383
    /\ last.ret = 255
    /\ vram.palette[0] = 59
    /\ failure = NoFailure

\* The byte at a VRAM address below 0x4000, by range.
ByteAt(mem, a) ==
    IF a < ChrSize THEN RomChr[a]
    ELSE IF a < PaletteBase THEN mem.nametables[a % NametablesSize]
    ELSE mem.palette[a % PaletteSize]

\* C12 (as claimed): for every base address a in 0x0000..0x3fff load16(a) succeeds
\* and returns load(a) + 256 * load(a + 1), also at a = 0x3fff.
C12_LoadwTotal ==
    last.op = "loadw" /\ last.addr < VramEnd =>
        /\ failure = NoFailure
        /\ last.addr + 1 < VramEnd =>
              last.ret = ByteAt(vram, last.addr) + 256 * ByteAt(vram, last.addr + 1)

\* C12 (amended): for every base address a in 0x0000..0x3ffe load16(a) succeeds and
\* returns load(a) + 256 * load(a + 1), also across two ranges (0x1fff, 0x3eff);
\* at a = 0x3fff it fails with InvalidAddress, as the high byte is read at 0x4000.
C12_LoadwLittleEndian ==
    last.op = "loadw" /\ last.addr < VramEnd =>
        IF last.addr + 1 < VramEnd
        THEN /\ failure = NoFailure
             /\ last.ret = ByteAt(vram, last.addr) + 256 * ByteAt(vram, last.addr + 1)
        ELSE failure = InvalidVramRead

\* A 16-bit load at 0x3eff: the low byte from the nametables, the high byte from
\* the palette.
C12_Witness ==
    /\ last.op = "loadw"
    /\ last.addr = 16127
    /\ vram.nametables[3839] = 59
    /\ vram.palette[0] = 255
    /\ last.ret = 59 + 256 * 255
    /\ failure = NoFailure

\* VRAM addresses looked at around every store: 0x0000 0x1fff | 0x2000 0x2eff 0x2f00
\* 0x2f1f 0x3eff | 0x3f00 0x3f1f 0x3fff.
VramProbes == {0, 8191, 8192, 12031, 12032, 12063, 16127, 16128, 16159, 16383}

\* Two addresses name the same slot of the same buffer.
SameSlot(a, b) ==
    \/ InNametables(a) /\ InNametables(b) /\ a % NametablesSize = b % NametablesSize
    \/ InPalette(a) /\ InPalette(b) /\ a % PaletteSize = b % PaletteSize

\* C18: the three VRAM ranges are disjoint and mirrored on their own: store(a, v)
\* changes what load(b) returns only for b in the range of a and on the slot of a;
\* a nametable store alters no palette byte and a palette store no nametable byte.
C18_RangesDisjoint ==
    [][last'.op = "storeb" /\ last'.addr < VramEnd =>
          /\ failure' = NoFailure
          /\ \A b \in VramProbes :
                PpuMem_loadb(vram', b) =
                    IF SameSlot(last'.addr, b)
                    THEN Ret(last'.val)
                    ELSE PpuMem_loadb(vram, b)]_vars

\* A palette store at 0x3f00 after a nametable store: the nametable byte is kept
\* and the nametable slot 0xf00 is still empty.
C18_Witness ==
    /\ last.op = "storeb"
    /\ last.addr = 16128
    /\ vram.palette[0] = last.val
    /\ vram.nametables[3839] # 0
    /\ vram.nametables[3839] # last.val
    /\ vram.nametables[3840] = 0

\* C13: from every state reached by register writes, a write to any register but
\* OAM data (offset 4) completes; a data-register write never fails, whatever the
\* cursor holds (0x4000 and above included).
C13_RegisterWritesTotal ==
    [][last'.op = "ppu_storeb" /\ last'.addr % 8 # 4 => failure' = NoFailure]_vars

\* A data-register write with the cursor past 0x4000 (bit 2 of ctrl clear, so the
\* cursor has not moved) has returned.
C13_Witness ==
    /\ IsRegWrite(last, 7)
    /\ (regs.ctrl \div 4) % 2 = 0
    /\ regs.addr >= VramEnd
    /\ failure = NoFailure

\* C14: a write of any byte to the status register (address & 7 = 2) does not fail
\* and leaves the status byte, every other register field and the VRAM as they were.
C14_StatusWriteIgnored ==
    [][IsRegWrite(last', 2) =>
          /\ failure' = NoFailure
          /\ regs' = regs
          /\ vram' = vram]_vars

\* A status write of a non-zero byte, after other registers were written.
C14_Witness ==
    /\ IsRegWrite(last, 2)
    /\ last.val # regs.status
    /\ regs.ctrl # 0
    /\ regs.addr # 0
    /\ failure = NoFailure

\* At most one byte of the nametables and the palette differs between pre and post:
\* post is pre, or pre with the byte v in the slot that address a names.
AtMostOneSlot(pre, post, a, v) ==
    \/ post = pre
    \/ post = [pre EXCEPT !.nametables[a % NametablesSize] = v]
    \/ post = [pre EXCEPT !.palette[a % PaletteSize] = v]

\* What a successful register write leaves alone at offsets 0, 1, 3, 5 and 6.
FrameOfWrite(reg) ==
    /\ reg = 0 => regs' = [regs EXCEPT !.ctrl = regs'.ctrl] /\ vram' = vram
    /\ reg = 1 => regs' = [regs EXCEPT !.mask = regs'.mask] /\ vram' = vram
    /\ reg = 3 => regs' = [regs EXCEPT !.oam_addr = regs'.oam_addr] /\ vram' = vram
    /\ reg = 5 =>
          /\ regs' = [regs EXCEPT !.scroll = regs'.scroll]
          /\ regs'.scroll.x = regs.scroll.x \/ regs'.scroll.y = regs.scroll.y
          /\ vram' = vram
    /\ reg = 6 => regs' = [regs EXCEPT !.addr = regs'.addr] /\ vram' = vram

\* C17 (as claimed): every successful register write is a single update: offset 0
\* changes only ctrl, 1 only mask, 3 only oam_addr, 5 only one of scroll.x and
\* scroll.y with the toggle, 6 only the cursor, and 7 only one VRAM slot.
C17_SingleUpdate ==
    [][last'.op = "ppu_storeb" /\ failure' = NoFailure =>
          /\ FrameOfWrite(last'.addr % 8)
          /\ last'.addr % 8 = 7 =>
                /\ regs' = regs
                /\ AtMostOneSlot(vram, vram', regs.addr, last'.val)]_vars

\* C17 (amended): as claimed for offsets 0, 1, 3, 5 and 6; a write to offset 7
\* changes at most one VRAM slot and the cursor, which advances by the increment,
\* and nothing else.
C17_FrameOfRegisterWrites ==
    [][last'.op = "ppu_storeb" /\ failure' = NoFailure =>
          /\ FrameOfWrite(last'.addr % 8)
          /\ last'.addr % 8 = 7 =>
                /\ regs' = [regs EXCEPT !.addr = regs'.addr]
                /\ regs'.addr \in {regs.addr, (regs.addr + 32) % U16}
                /\ AtMostOneSlot(vram, vram', regs.addr, last'.val)]_vars

\* A data-register write has changed a nametable slot and moved the cursor; mask,
\* oam_addr and scroll are as at power-on.
C17_Witness ==
    /\ IsRegWrite(last, 7)
    /\ (regs.ctrl \div 4) % 2 = 1
    /\ InNametables(regs.addr - 32)
    /\ vram.nametables[(regs.addr - 32) % NametablesSize] = last.val
    /\ regs.mask = 0
    /\ regs.oam_addr = 0
    /\ regs.scroll = [x |-> 0, y |-> 0, next |-> "XDir"]

\* C19: a data-register write changes at most one byte of the nametables and the
\* palette, and none when the cursor is below 0x2000 or at 0x4000 and above: the
\* byte is dropped and the cursor still advances by the increment, modulo 2^16.
C19_DataWritesConfined ==
    [][IsRegWrite(last', 7) =>
          /\ AtMostOneSlot(vram, vram', regs.addr, last'.val)
          /\ regs.addr < ChrSize \/ regs.addr >= VramEnd =>
                /\ vram' = vram
                /\ failure' = NoFailure
                /\ regs'.addr =
                      (regs.addr + (IF (regs.ctrl \div 4) % 2 = 1 THEN 32 ELSE 0)) % U16]_vars

\* A data-register write at cursor 0xffff with bit 2 of ctrl set: the cursor has
\* wrapped to 0x001f and no byte was stored.
C19_Witness ==
    /\ IsRegWrite(last, 7)
    /\ (regs.ctrl \div 4) % 2 = 1
    /\ regs.addr = 31
    /\ failure = NoFailure
    /\ \A i \in DOMAIN vram.palette : vram.palette[i] = 0
    /\ \A i \in DOMAIN vram.nametables : vram.nametables[i] = 0

\* C20: n data-register writes in a row, with no write to the address register or
\* to ctrl among them, leave the cursor where it was before the first when bit 2 of
\* ctrl is clear, so that all go to one VRAM slot, which keeps the last byte; with
\* bit 2 set the cursor is (initial + 32 * n) modulo 2^16.
C20_DataWriteRuns ==
    data_run.n > 0 =>
        IF (regs.ctrl \div 4) % 2 = 1
        THEN regs.addr = (data_run.start + 32 * data_run.n) % U16
        ELSE /\ regs.addr = data_run.start
             /\ IsRegWrite(last, 7) /\ InNametables(regs.addr) =>
                   vram.nametables[regs.addr % NametablesSize] = last.val
             /\ IsRegWrite(last, 7) /\ InPalette(regs.addr) =>
                   vram.palette[regs.addr % PaletteSize] = last.val

\* Three data-register writes in a row with bit 2 of ctrl set: the cursor is 96.
C20_Witness ==
    /\ data_run = [n |-> 3, start |-> 0]
    /\ (regs.ctrl \div 4) % 2 = 1
    /\ regs.addr = 96
    /\ IsRegWrite(last, 7)

\* The bit (0 or 1) of byte b at the position of the power of two w.
BitOf(b, w) == (b \div w) % 2

\* The bit that a status mutator writes: 0x20, 0x40, 0x80.
StatusBit(name) ==
    CASE name = "set_sprite_overflow" -> 32
      [] name = "set_sprite_zero_hit" -> 64
      [] name = "set_in_vblank" -> 128

IsStatusCall(op) ==
    op.op \in {"set_sprite_overflow", "set_sprite_zero_hit", "set_in_vblank"}

\* C15: for every status byte s and boolean val, set_sprite_overflow(val),
\* set_sprite_zero_hit(val) and set_in_vblank(val) make bit 5, 6 and 7 equal to val
\* and leave the other seven bits of s as they were; the same call twice is the
\* same as once.
C15_StatusMutators ==
    [][IsStatusCall(last') =>
          LET w == StatusBit(last'.op)
          IN  /\ regs'.status = regs.status - BitOf(regs.status, w) * w + last'.val * w
              /\ regs' = [regs EXCEPT !.status = regs'.status]
              /\ failure' = NoFailure
              /\ last.op = last'.op /\ last.val = last'.val =>
                    regs'.status = regs.status]_vars

\* set_in_vblank(false) as the second call on a status byte: bit 7 is clear, bits
\* 0-4 and 6 are set.
C15_Witness ==
    /\ last.op = "set_in_vblank"
    /\ last.val = 0
    /\ steps = 2
    /\ regs.status = 95

\* C16: for every ctrl byte v, vram_addr_increment(v) is 32 when bit 2 of v is set
\* and 0 otherwise; no other bit of v matters.
C16_VramAddrIncrement ==
    last.op = "vram_addr_increment" =>
        /\ last.val = regs.ctrl
        /\ last.ret = (IF BitOf(regs.ctrl, 4) = 1 THEN 32 ELSE 0)
        /\ \A v \in 0 .. U8 - 1 :
              BitOf(v, 4) = BitOf(regs.ctrl, 4) => vram_addr_increment(v) = last.ret

\* The increment of 0xfb, every bit but bit 2 set, is 0.
C16_Witness ==
    /\ last.op = "vram_addr_increment"
    /\ regs.ctrl = 251
    /\ last.ret = 0

====
